---- MODULE Spec2Model ----
\* Model of netlify/functions/youtube-audio/index.py: the request handler that
\* allocates a scratch file, probes for a yt-dlp backend, extracts the audio,
\* reads it back and cleans the scratch files up, run by one or two concurrent
\* invocations over one shared temporary directory.
EXTENDS Integers, Sequences, FiniteSets, TLC

\* ------------------------------------------------------------------ bounds

\* Longest diagnostic text (stderr, exception text) the environment produces.
MaxMsgLen == 201

\* Number of repetitions of a ten-character block in the long video identifier.
LongIdBlocks == 6

\* Most files a backend run writes when two invocations run concurrently.
MaxWritten == 1

\* ------------------------------------------------------- program constants

\* str(e)[:200] and error_output[:200]
TruncLen == 200

\* timeout=300 of the extraction subprocess
ExtractTimeout == 300

\* The handler invocations that may run concurrently in one process.
Procs == {1, 2}

\* Names tempfile may draw for the scratch file (directory + random stem).
Bases == {"/tmp/tmpa", "/tmp/tmpb"}

\* The extension list of the resolution loop and of the cleanup loop.
Exts == <<".m4a", ".webm", ".opus", ".mp3", ".mp4">>

ExtSet == {Exts[i] : i \in 1..Len(Exts)}

\* suffix='.mp3' of the scratch file
Suffix == ".mp3"

RECURSIVE Rep(_, _)
Rep(s, n) == IF n = 0 THEN "" ELSE s \o Rep(s, n - 1)

\* The identifiers a request may carry: the spec's example and a long one.
VideoIds == {"abc123", Rep("abcdefghij", LongIdBlocks)}

\* Lengths of the texts the environment hands to the handler.
MsgLens == {0, Len("video unavailable"), TruncLen, MaxMsgLen}

Min(a, b) == IF a < b THEN a ELSE b

\* s[:200] on a text of length n
Truncate(n) == Min(n, TruncLen)

\* ------------------------------------------------------------- filesystem

\* The temporary directory is the set of its files. A file on disk: its
\* path, its bytes and (ghost) the request that created it.
File(path, bytes, p) == [path |-> path, bytes |-> bytes, owner |-> p]

\* The file at a path that exists.
At(f, path) == CHOOSE x \in f : x.path = path

\* A file created or overwritten at path.
Write(f, path, bytes, p) ==
    {x \in f : x.path # path} \cup {File(path, bytes, p)}

\* The bytes a backend writes when it produces audio with extension ext.
AudioBytes(ext) == "audio" \o ext

PathStr(path) == path[1] \o path[2]

NoPath == <<"", "">>

\* os.path.exists
Exists(f, path) == \E x \in f : x.path = path

\* os.path.splitext(audio_path)[0] and audio_path.replace('.mp3', '')
base_name(path) == path[1]

\* ------------------------------------------------------------- exceptions

NoExc == [cls |-> "none", len |-> 0, stderr |-> -1]

\* An exception in flight: its class, the length of str(e), and for a
\* CalledProcessError the length of e.stderr (-1 when it is None).
Exc(cls, len, stderr) == [cls |-> cls, len |-> len, stderr |-> stderr]

\* ---------------------------------------------------------------- responses

NoResp == [statusCode |-> 0, error |-> "", detail |-> 0, ctype |-> "",
           filename |-> "", body |-> ""]

\* A failure response: the fixed error text and the length of the variable
\* (exception- or backend-derived) text carried with it.
Failure(code, error, detail) ==
    [statusCode |-> code, error |-> error, detail |-> detail, ctype |-> "",
     filename |-> "", body |-> ""]

\* base64.b64encode(audio_data).decode('utf-8')
B64(bytes) == "b64:" \o bytes

\* content_type with the table dropped: every file is declared audio/mpeg.
content_type_mpeg(ext) == "audio/mpeg"

\* content_types.get(ext, 'audio/mpeg')
content_type(ext) ==
    CASE ext = ".mp3" -> "audio/mpeg"
      [] ext = ".m4a" -> "audio/mp4"
      [] ext = ".webm" -> "audio/webm"
      [] ext = ".opus" -> "audio/opus"
      [] ext = ".mp4" -> "audio/mp4"
      [] OTHER -> "audio/mpeg"

\* The 200 response built from the bytes read from audio_path.
Success(vid, path, bytes) ==
    [statusCode |-> 200, error |-> "", detail |-> 0,
     ctype |-> content_type(path[2]),
     filename |-> "audio_" \o vid \o path[2],
     body |-> B64(bytes)]

\* ------------------------------------------------------------------- state

VARIABLES
    pc,           \* position of each invocation in the handler
    video_id,     \* the identifier of the request
    audio_path,   \* <<base, extension>> of the file the handler will read
    yt_dlp_cmd,   \* index of the selected executable candidate, 0 for None
    idx,          \* cursor of the probe loop / of the cleanup loop
    exc,          \* the exception propagating out of the inner try
    ret,          \* the value a return statement inside the try is returning
    response,     \* what the caller received
    fs,           \* the temporary directory
    scratch,      \* ghost: base allocated for this request, "" before
    written,      \* ghost: extensions the backend wrote during extraction
    removed,      \* ghost: the backend removed the placeholder
    backend,      \* ghost: "" | "exe" | "lib" | "none", what the probe selected
    extracted,    \* ghost: how the backend run ended, "" when none ran
    readFault,    \* ghost: open/read raised although the file was there
    cleanups,     \* ghost: times the finally block was entered
    unlinkFailed, \* ghost: extensions whose unlink raised during cleanup
    test_result,  \* how the liveness check in flight ended, "none" between checks
    request,      \* ghost: the method and body of the request received
    after,        \* ghost: invocations already answered when this one began
    probed,       \* ghost: candidates examined by the probe loop, in order
    passed,       \* ghost: candidates whose liveness check exited zero
    runs,         \* ghost: backends that started an extraction, in order
    host          \* "any" | "small": the environment; it never changes

vars == <<pc, video_id, audio_path, yt_dlp_cmd, idx, exc, ret, response, fs,
          scratch, written, removed, backend, extracted, readFault, cleanups,
          unlinkFailed, test_result, request, after, probed, passed, runs,
          host>>



Paths == Bases \X ExtSet

\* yt_dlp_paths, with the runtime's bin directory taken to be /usr/bin and
\* shutil.which resolving to the same place when it resolves at all.
yt_dlp_paths == <<"/usr/bin/yt-dlp", "/usr/bin/yt-dlp.exe",
                  "/opt/homebrew/bin/yt-dlp", "/usr/local/bin/yt-dlp",
                  "/usr/bin/yt-dlp", "yt-dlp">>

NumCands == Len(yt_dlp_paths)

\* The host is "any", every environment the handler may meet (any identifier,
\* any diagnostic text, any executable candidate live, a backend writing any
\* set of files, any request), or "small": only the bare 'yt-dlp' name is
\* there to be run, the backend writes at most MaxWritten files, each in the first
\* preferred container or at the placeholder's own suffix, and keeps the
\* placeholder, and the clients send well-formed POST requests with the
\* short identifier.
HostIds(h) == IF h = "any" THEN VideoIds ELSE {"abc123"}

HostMethods(h) == IF h = "any" THEN {"POST", "GET"} ELSE {"POST"}

HostLens(h) == IF h = "any" THEN MsgLens ELSE {Len("video unavailable")}

HostLive(h) == IF h = "any" THEN 1..NumCands ELSE {NumCands}

\* Candidates whose path exists on the host (the bare name is always run).
HostPresent(h) == IF h = "any" THEN 1..NumCands ELSE {NumCands}

HostEffects(h) ==
    IF h = "any" THEN (SUBSET ExtSet) \X BOOLEAN
    ELSE {W \in SUBSET {Exts[1], Suffix} : Cardinality(W) <= MaxWritten}
             \X {FALSE}

NoRequest == [method |-> "", json |-> FALSE, videoId |-> ""]

InitLocal(active, h) ==
    /\ pc = [p \in Procs |-> IF p \in active THEN "idle" ELSE "off"]
    /\ video_id = [p \in Procs |-> ""]
    /\ audio_path = [p \in Procs |-> NoPath]
    /\ yt_dlp_cmd = [p \in Procs |-> 0]
    /\ idx = [p \in Procs |-> 0]
    /\ exc = [p \in Procs |-> NoExc]
    /\ ret = [p \in Procs |-> NoResp]
    /\ response = [p \in Procs |-> NoResp]
    /\ fs = {}
    /\ scratch = [p \in Procs |-> ""]
    /\ written = [p \in Procs |-> {}]
    /\ removed = [p \in Procs |-> FALSE]
    /\ backend = [p \in Procs |-> ""]
    /\ extracted = [p \in Procs |-> ""]
    /\ readFault = [p \in Procs |-> FALSE]
    /\ cleanups = [p \in Procs |-> 0]
    /\ unlinkFailed = [p \in Procs |-> {}]
    /\ test_result = [p \in Procs |-> "none"]
    /\ request = [p \in Procs |-> NoRequest]
    /\ after = [p \in Procs |-> {}]
    /\ probed = [p \in Procs |-> <<>>]
    /\ passed = [p \in Procs |-> {}]
    /\ runs = [p \in Procs |-> <<>>]
    /\ host = h

\* One invocation at a time.
Init == InitLocal({1}, "any")

\* ------------------------------------------------- texts of the exceptions

\* f'https://www.youtube.com/watch?v={video_id}'
youtube_url(vid) == "https://www.youtube.com/watch?v=" \o vid

\* The argument list of the extraction subprocess.
CmdArgs(p) ==
    <<yt_dlp_paths[yt_dlp_cmd[p]], "-x", "--audio-format", "mp3",
      "--audio-quality", "0", "-o", PathStr(audio_path[p]),
      youtube_url(video_id[p])>>

RECURSIVE SumLen(_)
SumLen(args) == IF args = <<>> THEN 0 ELSE Len(Head(args)) + SumLen(Tail(args))

\* len(repr(args)): brackets, quoted items, ", " between them.
ReprLen(args) == 2 + SumLen(args) + 2 * Len(args) + 2 * (Len(args) - 1)

\* len(str(e)) of the CalledProcessError raised by check=True
StrCalledProcessError(p) ==
    Len("Command '") + ReprLen(CmdArgs(p))
        + Len("' returned non-zero exit status 1.")

\* len(str(e)) of the TimeoutExpired raised by timeout=300
StrTimeoutExpired(p) ==
    Len("Command '") + ReprLen(CmdArgs(p)) + Len("' timed out after ")
        + (IF ExtractTimeout < 1000 THEN 3 ELSE 4) + Len(" seconds")

\* len(str(e)) of an OSError naming a path
StrOSError(pathstr) == Len("[Errno 13] Permission denied: ''") + Len(pathstr)

\* len(str(e)) of the JSONDecodeError of a malformed body
StrJSONDecodeError == Len("Expecting value: line 1 column 1 (char 0)")

\* ------------------------------------------------------- request, scratch

\* event['body'] parsed: a text json.loads or body.get rejects (empty, null,
\* malformed, not an object), which carries no identifier, or an object
\* whose videoId may be missing or empty ("").
Bodies(h) ==
    IF h = "any"
    THEN {[json |-> TRUE, videoId |-> v] : v \in HostIds(h) \cup {""}}
             \cup {[json |-> FALSE, videoId |-> ""]}
    ELSE {[json |-> TRUE, videoId |-> v] : v \in HostIds(h)}

\* Lines 11-28: method check, body parse, identifier check.
Request(p) ==
    /\ pc[p] = "idle"
    /\ after' = [after EXCEPT ![p] = {q \in Procs : pc[q] = "done"}]
    /\ \E method \in HostMethods(host), body \in Bodies(host) :
       /\ request' = [request EXCEPT ![p] =
                         [method |-> method, json |-> body.json,
                          videoId |-> body.videoId]]
       /\
         IF method # "POST"
         THEN /\ response' = [response EXCEPT ![p] =
                                 Failure(405, "Method not allowed", 0)]
              /\ pc' = [pc EXCEPT ![p] = "done"]
              /\ UNCHANGED <<video_id, exc>>
         ELSE IF ~body.json
         THEN /\ exc' = [exc EXCEPT ![p] =
                            Exc("JSONDecodeError", StrJSONDecodeError, -1)]
              /\ pc' = [pc EXCEPT ![p] = "outer"]
              /\ UNCHANGED <<video_id, response>>
         ELSE IF body.videoId = ""
         THEN /\ response' = [response EXCEPT ![p] =
                                 Failure(400, "Video ID required", 0)]
              /\ pc' = [pc EXCEPT ![p] = "done"]
              /\ UNCHANGED <<video_id, exc>>
         ELSE /\ video_id' = [video_id EXCEPT ![p] = body.videoId]
              /\ pc' = [pc EXCEPT ![p] = "alloc"]
              /\ UNCHANGED <<response, exc>>
    /\ UNCHANGED <<audio_path, yt_dlp_cmd, idx, ret, fs, scratch, written,
                   removed, backend, extracted, readFault, cleanups,
                   unlinkFailed, test_result, probed, passed, runs, host>>

\* Lines 31-32: NamedTemporaryFile(suffix='.mp3', delete=False) creates, with
\* O_EXCL, an empty file under a name that does not exist yet.
Alloc(p) ==
    /\ pc[p] = "alloc"
    /\ \E b \in Bases :
         /\ ~Exists(fs, <<b, Suffix>>)
         /\ fs' = Write(fs, <<b, Suffix>>, "", p)
         /\ audio_path' = [audio_path EXCEPT ![p] = <<b, Suffix>>]
         /\ scratch' = [scratch EXCEPT ![p] = b]
    /\ pc' = [pc EXCEPT ![p] = "probe"]
    /\ idx' = [idx EXCEPT ![p] = 1]
    /\ UNCHANGED <<video_id, yt_dlp_cmd, exc, ret, response, written, removed,
                   backend, extracted, readFault, cleanups,
                   unlinkFailed, test_result, request, after, probed,
                   passed, runs, host>>

\* Lines 31-32 raising OSError (no space, no usable name): outside the inner
\* try, so no cleanup runs.
AllocFails(p) ==
    /\ pc[p] = "alloc"
    /\ exc' = [exc EXCEPT ![p] = Exc("OSError", StrOSError("/tmp"), -1)]
    /\ pc' = [pc EXCEPT ![p] = "outer"]
    /\ UNCHANGED <<video_id, audio_path, yt_dlp_cmd, idx, ret, response, fs,
                   scratch, written, removed, backend, extracted,
                   readFault, cleanups, unlinkFailed, test_result,
                   request, after, probed, passed, runs, host>>

\* ------------------------------------------------------------ backend probe

AfterProbe(i) == IF i > NumCands THEN "select" ELSE "probe"

\* Line 52 false: the candidate path does not exist (or shutil.which gave
\* None and line 48 dropped it). The bare name is always tried.
ProbeSkip(p) ==
    /\ pc[p] = "probe"
    /\ test_result[p] = "none"
    /\ yt_dlp_paths[idx[p]] # "yt-dlp"
    /\ probed' = [probed EXCEPT ![p] = Append(@, idx[p])]
    /\ idx' = [idx EXCEPT ![p] = idx[p] + 1]
    /\ pc' = [pc EXCEPT ![p] = AfterProbe(idx[p] + 1)]
    /\ UNCHANGED <<video_id, audio_path, yt_dlp_cmd, exc, ret, response, fs,
                   scratch, written, removed, backend, extracted,
                   readFault, cleanups, unlinkFailed, test_result,
                   request, after, passed, runs, host>>

\* How '[path, --version]' under timeout=5 may end for candidate i.
ProbeOutcomes(h, i) ==
    (IF i \in HostLive(h) THEN {"zero"} ELSE {})
        \cup {"nonzero", "TimeoutExpired", "OSError"}

\* Lines 52-60: the candidate exists (or is the bare name) and its liveness
\* check is run to its end.
ProbeRun(p) ==
    /\ pc[p] = "probe"
    /\ test_result[p] = "none"
    /\ idx[p] \in HostPresent(host)
    /\ \E out \in ProbeOutcomes(host, idx[p]) :
         /\ test_result' = [test_result EXCEPT ![p] = out]
         /\ passed' = [passed EXCEPT ![p] =
                          IF out = "zero" THEN @ \cup {idx[p]} ELSE @]
    /\ probed' = [probed EXCEPT ![p] = Append(@, idx[p])]
    /\ UNCHANGED <<pc, video_id, audio_path, yt_dlp_cmd, idx, exc, ret,
                   response, fs, scratch, written, removed, backend,
                   extracted, readFault, cleanups, unlinkFailed, request,
                   after, runs, host>>

\* ProbePass without the break of line 63: the candidate is selected and the
\* loop goes on to the next one.
ProbePassNoBreak(p) ==
    /\ pc[p] = "probe"
    /\ test_result[p] = "zero"
    /\ test_result' = [test_result EXCEPT ![p] = "none"]
    /\ yt_dlp_cmd' = [yt_dlp_cmd EXCEPT ![p] = idx[p]]
    /\ backend' = [backend EXCEPT ![p] = "exe"]
    /\ idx' = [idx EXCEPT ![p] = idx[p] + 1]
    /\ pc' = [pc EXCEPT ![p] = AfterProbe(idx[p] + 1)]
    /\ UNCHANGED <<video_id, audio_path, exc, ret, response, fs, scratch,
                   written, removed, extracted, readFault, cleanups,
                   unlinkFailed, request, after, probed, passed, runs, host>>

\* Lines 61-63: the check exited zero; the candidate is selected, break.
ProbePass(p) ==
    /\ pc[p] = "probe"
    /\ test_result[p] = "zero"
    /\ test_result' = [test_result EXCEPT ![p] = "none"]
    /\ yt_dlp_cmd' = [yt_dlp_cmd EXCEPT ![p] = idx[p]]
    /\ backend' = [backend EXCEPT ![p] = "exe"]
    /\ pc' = [pc EXCEPT ![p] = "select"]
    /\ UNCHANGED <<video_id, audio_path, idx, exc, ret, response, fs, scratch,
                   written, removed, extracted, readFault, cleanups,
                   unlinkFailed, request, after, probed, passed, runs, host>>

\* ProbeFail with the except clause of line 64 narrowed to TimeoutExpired: a
\* candidate that cannot be launched raises out of the probe loop.
ProbeFailRaises(p) ==
    /\ pc[p] = "probe"
    /\ test_result[p] \in {"nonzero", "TimeoutExpired", "OSError"}
    /\ test_result' = [test_result EXCEPT ![p] = "none"]
    /\ IF test_result[p] = "OSError"
       THEN /\ exc' = [exc EXCEPT ![p] =
                          Exc("OSError", StrOSError(yt_dlp_paths[idx[p]]), -1)]
            /\ pc' = [pc EXCEPT ![p] = "finally"]
            /\ idx' = idx
       ELSE /\ idx' = [idx EXCEPT ![p] = idx[p] + 1]
            /\ pc' = [pc EXCEPT ![p] = AfterProbe(idx[p] + 1)]
            /\ exc' = exc
    /\ UNCHANGED <<video_id, audio_path, yt_dlp_cmd, ret, response, fs,
                   scratch, written, removed, backend, extracted,
                   readFault, cleanups, unlinkFailed, request, after,
                   probed, passed, runs, host>>

\* ProbeFail over a selection kept in a module-level cache: a candidate
\* another invocation selected is taken although its check just failed.
ProbeFailUsesCached(p) ==
    /\ pc[p] = "probe"
    /\ test_result[p] \in {"nonzero", "TimeoutExpired", "OSError"}
    /\ test_result' = [test_result EXCEPT ![p] = "none"]
    /\ IF \E q \in Procs \ {p} : yt_dlp_cmd[q] = idx[p]
       THEN /\ yt_dlp_cmd' = [yt_dlp_cmd EXCEPT ![p] = idx[p]]
            /\ backend' = [backend EXCEPT ![p] = "exe"]
            /\ pc' = [pc EXCEPT ![p] = "select"]
            /\ idx' = idx
       ELSE /\ idx' = [idx EXCEPT ![p] = idx[p] + 1]
            /\ pc' = [pc EXCEPT ![p] = AfterProbe(idx[p] + 1)]
            /\ UNCHANGED <<yt_dlp_cmd, backend>>
    /\ UNCHANGED <<video_id, audio_path, exc, ret, response, fs, scratch,
                   written, removed, extracted, readFault, cleanups,
                   unlinkFailed, request, after, probed, passed, runs, host>>

\* Lines 61-65: the check exited non-zero, timed out or could not be
\* launched; the loop goes on to the next candidate.
ProbeFail(p) ==
    /\ pc[p] = "probe"
    /\ test_result[p] \in {"nonzero", "TimeoutExpired", "OSError"}
    /\ test_result' = [test_result EXCEPT ![p] = "none"]
    /\ idx' = [idx EXCEPT ![p] = idx[p] + 1]
    /\ pc' = [pc EXCEPT ![p] = AfterProbe(idx[p] + 1)]
    /\ UNCHANGED <<video_id, audio_path, yt_dlp_cmd, exc, ret, response, fs,
                   scratch, written, removed, backend, extracted,
                   readFault, cleanups, unlinkFailed, request, after,
                   probed, passed, runs, host>>

\* ------------------------------------------------------------- extraction

\* What a backend run does to the temporary directory: it writes audio to
\* <base><ext> for the extensions in W and may remove the placeholder.
BackendWrite(f, b, W, rm, p) ==
    {x \in f : ~(x.path[1] = b /\ (x.path[2] \in W
                                     \/ (rm /\ x.path[2] = Suffix)))}
        \cup {File(<<b, e>>, AudioBytes(e), p) : e \in W}

\* A backend run on the scratch files of request p, ending as `how`: one of
\* the effects the host allows, with the ghost record of what it did.
Backend(p, how) ==
    \E eff \in HostEffects(host) :
        /\ fs' = BackendWrite(fs, base_name(audio_path[p]), eff[1], eff[2], p)
        /\ written' = [written EXCEPT ![p] = eff[1]]
        /\ removed' = [removed EXCEPT ![p] = eff[2] /\ Suffix \notin eff[1]]
        /\ extracted' = [extracted EXCEPT ![p] = how]

\* The extraction is handed to a backend of the given kind.
Started(p, kind) == runs' = [runs EXCEPT ![p] = Append(@, kind)]

\* LibImportError with its return placed outside the try/finally: the
\* response is returned without the cleanup.
LibImportErrorOutsideTry(p) ==
    /\ pc[p] = "select"
    /\ yt_dlp_cmd[p] = 0
    /\ ret' = [ret EXCEPT ![p] = Failure(500, "yt-dlp not found", 0)]
    /\ backend' = [backend EXCEPT ![p] = "none"]
    /\ pc' = [pc EXCEPT ![p] = "outer"]
    /\ UNCHANGED <<video_id, audio_path, yt_dlp_cmd, idx, exc, response, fs,
                   scratch, written, removed, extracted, readFault,
                   cleanups, unlinkFailed, test_result, request, after,
                   probed, passed, runs, host>>

\* Lines 69-70 and 98-105: 'import yt_dlp' raises ImportError.
LibImportError(p) ==
    /\ pc[p] = "select"
    /\ yt_dlp_cmd[p] = 0
    /\ ret' = [ret EXCEPT ![p] = Failure(500, "yt-dlp not found", 0)]
    /\ backend' = [backend EXCEPT ![p] = "none"]
    /\ pc' = [pc EXCEPT ![p] = "finally"]
    /\ UNCHANGED <<video_id, audio_path, yt_dlp_cmd, idx, exc, response, fs,
                   scratch, written, removed, extracted, readFault,
                   cleanups, unlinkFailed, test_result, request, after,
                   probed, passed, runs, host>>

\* Lines 70-81: the library is imported and ydl.download returns.
LibDownload(p) ==
    /\ pc[p] = "select"
    /\ Started(p, "lib")
    /\ yt_dlp_cmd[p] = 0
    /\ Backend(p, "ok")
    /\ backend' = [backend EXCEPT ![p] = "lib"]
    /\ pc' = [pc EXCEPT ![p] = "resolve"]
    /\ UNCHANGED <<video_id, audio_path, yt_dlp_cmd, idx, exc, ret, response,
                   scratch, readFault, cleanups, unlinkFailed,
                   test_result, request, after, probed, passed,
                   host>>

\* Lines 98-113: what the library branch returns for an exception of class
\* cls whose text has length n.
LibHandler(cls, n) ==
    IF cls = "ImportError"
    THEN Failure(500, "yt-dlp not found", 0)
    ELSE Failure(500, "Failed to extract audio using yt-dlp module",
                 Truncate(n))

\* Lines 70-81 and 98-113: the library is imported and ydl.download raises.
LibDownloadRaises(p) ==
    /\ pc[p] = "select"
    /\ Started(p, "lib")
    /\ yt_dlp_cmd[p] = 0
    /\ Backend(p, "raised")
    /\ backend' = [backend EXCEPT ![p] = "lib"]
    /\ \E cls \in {"DownloadError", "ImportError"}, n \in HostLens(host) :
         ret' = [ret EXCEPT ![p] = LibHandler(cls, n)]
    /\ pc' = [pc EXCEPT ![p] = "finally"]
    /\ UNCHANGED <<video_id, audio_path, yt_dlp_cmd, idx, exc, response,
                   scratch, readFault, cleanups, unlinkFailed,
                   test_result, request, after, probed, passed,
                   host>>

RECURSIVE LastExisting(_, _, _)
\* FirstExisting with the break of line 91 left out: the last extension whose
\* file exists wins.
LastExisting(f, b, i) ==
    IF i > Len(Exts) THEN 0
    ELSE IF LastExisting(f, b, i + 1) # 0 THEN LastExisting(f, b, i + 1)
    ELSE IF Exists(f, <<b, Exts[i]>>) THEN i
    ELSE 0

RECURSIVE FirstExisting(_, _, _)
\* Lines 87-91: the first extension, from position i on, whose file exists;
\* 0 when there is none.
FirstExisting(f, b, i) ==
    IF i > Len(Exts) THEN 0
    ELSE IF Exists(f, <<b, Exts[i]>>) THEN i
    ELSE FirstExisting(f, b, i + 1)

\* Lines 84-91: audio_path after the resolution.
Resolve(f, path) ==
    IF Exists(f, path) THEN path
    ELSE IF FirstExisting(f, base_name(path), 1) = 0 THEN path
    ELSE <<base_name(path), Exts[FirstExisting(f, base_name(path), 1)]>>

\* Lines 83-97: resolution in the library branch.
LibResolve(p) ==
    /\ pc[p] = "resolve"
    /\ audio_path' = [audio_path EXCEPT ![p] = Resolve(fs, audio_path[p])]
    /\ IF Exists(fs, audio_path'[p])
       THEN /\ pc' = [pc EXCEPT ![p] = "read"]
            /\ ret' = ret
       ELSE /\ pc' = [pc EXCEPT ![p] = "finally"]
            /\ ret' = [ret EXCEPT ![p] =
                          Failure(500, "Failed to extract audio file", 0)]
    /\ UNCHANGED <<video_id, yt_dlp_cmd, idx, exc, response, fs, scratch,
                   written, removed, backend, extracted, readFault,
                   cleanups, unlinkFailed, test_result, request, after,
                   probed, passed, runs, host>>

\* Lines 116-123: the selected executable exits zero.
CliRun(p) ==
    /\ pc[p] = "select"
    /\ Started(p, "exe")
    /\ yt_dlp_cmd[p] # 0
    /\ Backend(p, "ok")
    /\ pc' = [pc EXCEPT ![p] = "read"]
    /\ UNCHANGED <<video_id, audio_path, yt_dlp_cmd, idx, exc, ret, response,
                   scratch, backend, readFault, cleanups, unlinkFailed,
                   test_result, request, after, probed, passed,
                   host>>

\* CliNonZero with a fallback: the failed executable is dropped and the
\* request goes on to the in-process library.
CliNonZeroFallsBack(p) ==
    /\ pc[p] = "select"
    /\ Started(p, "exe")
    /\ yt_dlp_cmd[p] # 0
    /\ Backend(p, "nonzero")
    /\ yt_dlp_cmd' = [yt_dlp_cmd EXCEPT ![p] = 0]
    /\ UNCHANGED <<pc, video_id, audio_path, idx, exc, ret, response,
                   scratch, backend, readFault, cleanups, unlinkFailed,
                   test_result, request, after, probed, passed, host>>

\* Lines 116-123: the selected executable exits non-zero (check=True).
CliNonZero(p) ==
    /\ pc[p] = "select"
    /\ Started(p, "exe")
    /\ yt_dlp_cmd[p] # 0
    /\ Backend(p, "nonzero")
    /\ \E stderr \in HostLens(host) :
         exc' = [exc EXCEPT ![p] =
                    Exc("CalledProcessError", StrCalledProcessError(p), stderr)]
    /\ pc' = [pc EXCEPT ![p] = "finally"]
    /\ UNCHANGED <<video_id, audio_path, yt_dlp_cmd, idx, ret, response,
                   scratch, backend, readFault, cleanups, unlinkFailed,
                   test_result, request, after, probed, passed,
                   host>>

\* Lines 116-123: the selected executable runs past timeout=300.
CliTimeout(p) ==
    /\ pc[p] = "select"
    /\ Started(p, "exe")
    /\ yt_dlp_cmd[p] # 0
    /\ Backend(p, "timeout")
    /\ exc' = [exc EXCEPT ![p] =
                  Exc("TimeoutExpired", StrTimeoutExpired(p), -1)]
    /\ pc' = [pc EXCEPT ![p] = "finally"]
    /\ UNCHANGED <<video_id, audio_path, yt_dlp_cmd, idx, ret, response,
                   scratch, backend, readFault, cleanups, unlinkFailed,
                   test_result, request, after, probed, passed,
                   host>>

\* Lines 116-123: the selected executable cannot be launched any more.
CliOSError(p) ==
    /\ pc[p] = "select"
    /\ Started(p, "exe")
    /\ yt_dlp_cmd[p] # 0
    /\ extracted' = [extracted EXCEPT ![p] = "oserror"]
    /\ exc' = [exc EXCEPT ![p] =
                  Exc("OSError", StrOSError(yt_dlp_paths[yt_dlp_cmd[p]]), -1)]
    /\ pc' = [pc EXCEPT ![p] = "finally"]
    /\ UNCHANGED <<video_id, audio_path, yt_dlp_cmd, idx, ret, response, fs,
                   scratch, written, removed, backend, readFault,
                   cleanups, unlinkFailed, test_result, request, after,
                   probed, passed, host>>

\* ------------------------------------------------------------------- read

\* Lines 126-151: the file at audio_path is read and the 200 response built.
Read(p) ==
    /\ pc[p] = "read"
    /\ Exists(fs, audio_path[p])
    /\ ret' = [ret EXCEPT ![p] =
                  Success(video_id[p], audio_path[p], At(fs, audio_path[p]).bytes)]
    /\ pc' = [pc EXCEPT ![p] = "finally"]
    /\ UNCHANGED <<video_id, audio_path, yt_dlp_cmd, idx, exc, response, fs,
                   scratch, written, removed, backend, extracted,
                   readFault, cleanups, unlinkFailed, test_result,
                   request, after, probed, passed, runs, host>>

\* Lines 126-127: open or read raises OSError (the file is missing, or it is
\* there and cannot be read).
ReadFails(p) ==
    /\ pc[p] = "read"
    /\ readFault' = [readFault EXCEPT ![p] = Exists(fs, audio_path[p])]
    /\ exc' = [exc EXCEPT ![p] =
                  Exc("OSError", StrOSError(PathStr(audio_path[p])), -1)]
    /\ pc' = [pc EXCEPT ![p] = "finally"]
    /\ UNCHANGED <<video_id, audio_path, yt_dlp_cmd, idx, ret, response, fs,
                   scratch, written, removed, backend, extracted,
                   cleanups, unlinkFailed, test_result, request, after,
                   probed, passed, runs, host>>

\* ---------------------------------------------------------------- cleanup

\* os.unlink
Unlink(f, path) == {x \in f : x.path # path}

\* Lines 154-155: the finally block is entered; audio_path is unlinked when
\* it exists.
UnlinkAudioPath(p) ==
    /\ pc[p] = "finally"
    /\ cleanups' = [cleanups EXCEPT ![p] = cleanups[p] + 1]
    /\ fs' = IF Exists(fs, audio_path[p]) THEN Unlink(fs, audio_path[p]) ELSE fs
    /\ pc' = [pc EXCEPT ![p] = "cleanup_loop"]
    /\ idx' = [idx EXCEPT ![p] = 1]
    /\ UNCHANGED <<video_id, audio_path, yt_dlp_cmd, exc, ret, response,
                   scratch, written, removed, backend, extracted,
                   readFault, unlinkFailed, test_result, request,
                   after, probed, passed, runs, host>>

\* Lines 154-155: os.unlink(audio_path) raises OSError. It is not guarded, so
\* the exception leaves the finally block: it replaces the exception in
\* flight, discards a pending return value and skips the loop.
UnlinkAudioPathFails(p) ==
    /\ pc[p] = "finally"
    /\ Exists(fs, audio_path[p])
    /\ cleanups' = [cleanups EXCEPT ![p] = cleanups[p] + 1]
    /\ unlinkFailed' = [unlinkFailed EXCEPT ![p] = @ \cup {audio_path[p][2]}]
    /\ exc' = [exc EXCEPT ![p] =
                  Exc("OSError", StrOSError(PathStr(audio_path[p])), -1)]
    /\ ret' = [ret EXCEPT ![p] = NoResp]
    /\ pc' = [pc EXCEPT ![p] = "outer"]
    /\ UNCHANGED <<video_id, audio_path, yt_dlp_cmd, idx, response, fs,
                   scratch, written, removed, backend, extracted,
                   readFault, test_result, request, after, probed,
                   passed, runs, host>>

\* The candidate of the cleanup loop's current iteration.
Candidate(p) == <<base_name(audio_path[p]), Exts[idx[p]]>>

AfterCleanup(i) == IF i > Len(Exts) THEN "outer" ELSE "cleanup_loop"

\* Lines 158-162: one iteration of the loop; the candidate is unlinked when
\* it exists and is not audio_path.
CleanupSibling(p) ==
    /\ pc[p] = "cleanup_loop"
    /\ fs' = IF Exists(fs, Candidate(p)) /\ Candidate(p) # audio_path[p]
             THEN Unlink(fs, Candidate(p))
             ELSE fs
    /\ idx' = [idx EXCEPT ![p] = idx[p] + 1]
    /\ pc' = [pc EXCEPT ![p] = AfterCleanup(idx[p] + 1)]
    /\ UNCHANGED <<video_id, audio_path, yt_dlp_cmd, exc, ret, response,
                   scratch, written, removed, backend, extracted,
                   readFault, cleanups, unlinkFailed, test_result,
                   request, after, probed, passed, runs, host>>

\* Lines 160-164: os.unlink(candidate) raises OSError, which is passed over.
CleanupSiblingFails(p) ==
    /\ pc[p] = "cleanup_loop"
    /\ Exists(fs, Candidate(p))
    /\ Candidate(p) # audio_path[p]
    /\ unlinkFailed' = [unlinkFailed EXCEPT ![p] = @ \cup {Exts[idx[p]]}]
    /\ idx' = [idx EXCEPT ![p] = idx[p] + 1]
    /\ pc' = [pc EXCEPT ![p] = AfterCleanup(idx[p] + 1)]
    /\ UNCHANGED <<video_id, audio_path, yt_dlp_cmd, exc, ret, response, fs,
                   scratch, written, removed, backend, extracted,
                   readFault, cleanups, test_result, request, after,
                   probed, passed, runs, host>>

\* ----------------------------------------------------------- outer handlers

\* IsException with the outer handlers narrowed to the subprocess errors.
IsSubprocessError(cls) == cls \in {"CalledProcessError", "TimeoutExpired"}

\* The classes 'except Exception' catches: every exception the handler's
\* calls raise derives from Exception.
IsException(cls) ==
    cls \in {"CalledProcessError", "TimeoutExpired", "OSError",
             "JSONDecodeError", "DownloadError", "ImportError"}

\* Line 172: error_output[:200] if error_output else str(e)
Message(e) == IF e.stderr > 0 THEN Truncate(e.stderr) ELSE e.len

\* Lines 166-179: the response the outer handlers build for exception e.
OuterHandler(e) ==
    IF e.cls = "CalledProcessError"
    THEN Failure(500, "Failed to extract audio", Message(e))
    ELSE Failure(500, "Error: ", e.len)

\* Lines 166-179 and the end of the finally block: the pending return value
\* is returned, or the exception in flight is handled; an exception no
\* handler catches leaves the handler. The frame's locals are gone.
Return(p) ==
    /\ pc[p] = "outer"
    /\ IF exc[p] = NoExc
       THEN /\ response' = [response EXCEPT ![p] = ret[p]]
            /\ pc' = [pc EXCEPT ![p] = "done"]
       ELSE IF exc[p].cls = "CalledProcessError" \/ IsException(exc[p].cls)
       THEN /\ response' = [response EXCEPT ![p] = OuterHandler(exc[p])]
            /\ pc' = [pc EXCEPT ![p] = "done"]
       ELSE /\ response' = response
            /\ pc' = [pc EXCEPT ![p] = "uncaught"]
    /\ idx' = [idx EXCEPT ![p] = 0]
    /\ exc' = [exc EXCEPT ![p] = NoExc]
    /\ ret' = [ret EXCEPT ![p] = NoResp]
    /\ UNCHANGED <<video_id, audio_path, yt_dlp_cmd, fs, scratch, written,
                   removed, backend, extracted, readFault, cleanups,
                   unlinkFailed, test_result, request, after, probed,
                   passed, runs, host>>

Step(p) ==
    \/ Request(p)
    \/ Alloc(p)
    \/ AllocFails(p)
    \/ ProbeSkip(p)
    \/ ProbeRun(p)
    \/ ProbePass(p)
    \/ ProbeFail(p)
    \/ LibImportError(p)
    \/ LibDownload(p)
    \/ LibDownloadRaises(p)
    \/ LibResolve(p)
    \/ CliRun(p)
    \/ CliNonZero(p)
    \/ CliTimeout(p)
    \/ CliOSError(p)
    \/ Read(p)
    \/ ReadFails(p)
    \/ UnlinkAudioPath(p)
    \/ UnlinkAudioPathFails(p)
    \/ CleanupSibling(p)
    \/ CleanupSiblingFails(p)
    \/ Return(p)

Next == \E p \in Procs : Step(p)

Spec == Init /\ [][Next]_vars

\* Two invocations running concurrently in one process.
InitConc == InitLocal(Procs, "small")

SpecConc == InitConc /\ [][Next]_vars

\* ------------------------------------------------------------------ claims

Done(p) == pc[p] = "done"

Allocated(p) == scratch[p] # ""

\* No unlink raised during this request's cleanup and no read of an existing
\* file failed.
NoFault(p) == unlinkFailed[p] = {} /\ ~readFault[p]

\* From allocation to the end of the cleanup loop.
InFlight(p) ==
    pc[p] \in {"probe", "select", "resolve", "read", "finally", "cleanup_loop"}

BackendUnavailable == Failure(500, "yt-dlp not found", 0)

NoOutputProduced == Failure(500, "Failed to extract audio file", 0)

\* C1: after any outcome of a request that allocated a scratch base, no file
\* remains at <scratch base><ext> for any known extension, whatever the
\* backend wrote. Stated so that best-effort cleanup could satisfy it: a file
\* may remain only when the unlink of that very file raised.
C1_NoScratchFileRemains ==
    \A p \in Procs :
        Done(p) /\ Allocated(p) =>
            \A e \in ExtSet :
                Exists(fs, <<scratch[p], e>>) => e \in unlinkFailed[p]

\* C2: when the selected backend (executable or library) succeeds having
\* written the audio to <scratch base>E, the outcome is Success with the bytes
\* of that file, the media type of E and the filename audio_<identifier>E.
\* Stated for requests in which no unlink and no read of an existing file
\* failed.
C2_SuccessCarriesWrittenFile ==
    \A p \in Procs : \A E \in ExtSet :
        Done(p) /\ backend[p] \in {"exe", "lib"} /\ extracted[p] = "ok"
                /\ written[p] = {E} /\ NoFault(p) =>
            response[p] = Success(video_id[p], <<scratch[p], E>>, AudioBytes(E))

\* C3: when the selected backend (executable or library) reports success but
\* wrote no output file under the scratch base, the outcome is
\* Failure(NoOutputProduced), 'Failed to extract audio file'. Stated for
\* requests in which no unlink and no read of an existing file failed.
C3_NoOutputProduced ==
    \A p \in Procs :
        Done(p) /\ backend[p] \in {"exe", "lib"} /\ extracted[p] = "ok"
                /\ written[p] = {} /\ NoFault(p) =>
            response[p] = NoOutputProduced

\* C4: the cleanup of one request never unlinks a file that belongs to
\* another request that has allocated its scratch base and not yet finished
\* its cleanup loop.
C4_CleanupNeverUnlinksForeignFile ==
    [][\A p \in Procs :
          pc[p] \in {"finally", "cleanup_loop"}
              /\ <<pc'[p], idx'[p]>> # <<pc[p], idx[p]>> =>
          \A path \in Paths :
              Exists(fs, path) /\ ~Exists(fs', path) =>
                  ~(At(fs, path).owner # p /\ InFlight(At(fs, path).owner))]_vars

\* C5: when the selected executable exits non-zero, the outcome is
\* Failure(ExtractionFailed), 'Failed to extract audio', and the message
\* returned is at most 200 characters long, for every content of stderr and
\* every identifier length. Stated for requests in which no unlink failed.
C5_NonZeroExitMessageBounded ==
    \A p \in Procs :
        Done(p) /\ extracted[p] = "nonzero" /\ NoFault(p) =>
            /\ response[p].statusCode = 500
            /\ response[p].error = "Failed to extract audio"
            /\ response[p].detail <= TruncLen

\* C6: in every Failure outcome of every path the exception- or
\* backend-derived text surfaced to the caller is at most 200 characters long.
C6_FailureTextTruncated ==
    \A p \in Procs :
        Done(p) /\ response[p].statusCode # 200 =>
            response[p].detail <= TruncLen

\* C7: when no executable candidate passes its liveness check and the library
\* is not importable, the outcome is exactly Failure(BackendUnavailable),
\* 'yt-dlp not found', and no extraction is attempted.
C7_BackendUnavailable ==
    \A p \in Procs :
        Done(p) /\ backend[p] = "none" =>
            response[p] = BackendUnavailable /\ extracted[p] = ""

\* C8: a failure to unlink a scratch file during cleanup never becomes the
\* outcome of the request: no step of the cleanup changes the return value or
\* the exception that entered it, and the loop over the remaining candidates
\* is not skipped.
C8_UnlinkFailureNeverBecomesOutcome ==
    [][\A p \in Procs :
          pc[p] \in {"finally", "cleanup_loop"} =>
              /\ exc'[p] = exc[p]
              /\ ret'[p] = ret[p]
              /\ pc[p] = "finally" => pc'[p] \in {"finally", "cleanup_loop"}]_vars

\* C9: for every request that allocated a scratch base the finally block is
\* entered exactly once, strictly before the outcome is returned, on every
\* exit path, and unless an unlink raised it has gone through every
\* candidate; a request that allocated nothing never enters it.
C9_CleanupOnceBeforeOutcome ==
    \A p \in Procs :
        /\ cleanups[p] <= 1
        /\ Allocated(p) /\ pc[p] = "outer" /\ unlinkFailed[p] = {} =>
               idx[p] = Len(Exts) + 1
        /\ pc[p] \in {"probe", "select", "resolve", "read", "finally"} =>
               cleanups[p] = 0 /\ response[p] = NoResp
        /\ Allocated(p) /\ pc[p] \in {"cleanup_loop", "outer", "done"} =>
               cleanups[p] = 1
        /\ Allocated(p) /\ response[p] # NoResp => cleanups[p] = 1
        /\ ~Allocated(p) => cleanups[p] = 0

\* An extraction that timed out was cleaned up once and then answered.
C9_Witness ==
    \E p \in Procs :
        Done(p) /\ Allocated(p) /\ extracted[p] = "timeout"
                /\ cleanups[p] = 1 /\ response[p].statusCode = 500

\* C10: every invocation ends by returning a response with a status code; no
\* exception raised while allocating, probing, extracting, resolving, reading
\* or cleaning up leaves the handler uncaught, and no invocation is stuck
\* before its return.
C10_AlwaysAResponse ==
    \A p \in Procs :
        /\ pc[p] # "uncaught"
        /\ Done(p) => response[p].statusCode \in {200, 400, 405, 500}
        /\ pc[p] \in {"off", "done"} \/ ENABLED Step(p)

\* A read failure and an unlink failure were both answered with a response.
C10_Witness ==
    \E p \in Procs :
        Done(p) /\ readFault[p] /\ unlinkFailed[p] # {}
                /\ response[p] = Failure(500, "Error: ",
                                         StrOSError(PathStr(audio_path[p])))

\* C11: when the selected executable runs past its 300-second budget, the
\* outcome is reported under the ExtractionFailed kind, 'Failed to extract
\* audio', the kind of a non-zero exit, and the cleanup has run. Stated for
\* requests in which no unlink failed.
C11_TimeoutReportedAsExtractionFailed ==
    \A p \in Procs :
        Done(p) /\ extracted[p] = "timeout" /\ NoFault(p) =>
            /\ response[p].statusCode = 500
            /\ response[p].error = "Failed to extract audio"
            /\ cleanups[p] = 1

\* The extension table of the specification.
MediaTypes ==
    (".mp3" :> "audio/mpeg") @@ (".m4a" :> "audio/mp4")
        @@ (".webm" :> "audio/webm") @@ (".opus" :> "audio/opus")
        @@ (".mp4" :> "audio/mp4")

\* C12: in every Success outcome the media type is the table entry of the
\* extension of the resolved file, the filename is audio_<identifier><that
\* extension>, and the payload is the bytes of that same file: what the
\* backend wrote there, or the empty placeholder when it wrote nothing there.
C12_SuccessMatchesResolvedFile ==
    \A p \in Procs :
        Done(p) /\ response[p].statusCode = 200 =>
            LET e == audio_path[p][2] IN
            /\ audio_path[p][1] = scratch[p]
            /\ e \in DOMAIN MediaTypes
            /\ response[p].ctype = MediaTypes[e]
            /\ response[p].filename = "audio_" \o video_id[p] \o e
            /\ response[p].body =
                   B64(IF e \in written[p] THEN AudioBytes(e) ELSE "")

\* The library wrote only a .webm file and it was answered as audio/webm.
C12_Witness ==
    \E p \in Procs :
        /\ Done(p)
        /\ written[p] = {".webm"}
        /\ audio_path[p] = <<scratch[p], ".webm">>
        /\ response[p].statusCode = 200
        /\ response[p].ctype = "audio/webm"
        /\ response[p].filename = "audio_abc123.webm"

\* The request is not a POST, or it carries no identifier or an empty one.
Invalid(p) ==
    \/ request[p].method # "POST"
    \/ ~request[p].json
    \/ request[p].videoId = ""

\* C13: a request that is not a POST or whose identifier is missing or empty
\* is answered 405 or 400 without entering the core: no scratch file is
\* created, no candidate is probed, no extraction is started and the
\* temporary directory is left as it was.
C13_InvalidRequestRejected ==
    \A p \in Procs :
        Done(p) /\ Invalid(p) =>
            /\ response[p].statusCode \in {400, 405}
            /\ ~Allocated(p)
            /\ probed[p] = <<>>
            /\ runs[p] = <<>>
            /\ fs = {}

\* The probe loop of the request is over.
Probed(p) ==
    pc[p] \in {"select", "resolve", "read", "finally", "cleanup_loop",
               "outer", "done"} /\ Allocated(p)

\* C14: the selection is never carried over between requests. Whatever other
\* requests before or beside it selected, a request starts its probe with
\* nothing selected, selects an executable exactly when one of its own
\* liveness checks exited zero, and reports BackendUnavailable only when none
\* of its own checks did.
C14_SelectionNotCarriedOver ==
    \A p \in Procs :
        /\ pc[p] = "probe" => yt_dlp_cmd[p] = 0 /\ backend[p] = ""
        /\ Probed(p) =>
              /\ yt_dlp_cmd[p] # 0 <=> passed[p] # {}
              /\ yt_dlp_cmd[p] # 0 => yt_dlp_cmd[p] \in passed[p]
              /\ backend[p] = "exe" <=> passed[p] # {}
        /\ Done(p) /\ response[p] = BackendUnavailable => passed[p] = {}

\* A request received after another was answered BackendUnavailable found
\* the executable alive at its own probe and succeeded with it.
C14_Witness ==
    \E p \in Procs : \E q \in after[p] :
        /\ backend[q] = "none"
        /\ response[q] = BackendUnavailable
        /\ Done(p)
        /\ backend[p] = "exe"
        /\ yt_dlp_cmd[p] = NumCands
        /\ response[p].statusCode = 200

\* The candidates 1, 2, ... in list order, each once.
InOrder(seq) == \A i \in 1..Len(seq) : seq[i] = i

\* C15: the candidates are examined strictly in list order (runtime-adjacent
\* yt-dlp, yt-dlp.exe, /opt/homebrew/bin, /usr/local/bin, search-path lookup,
\* bare name); the selected executable is the first whose liveness check
\* exited zero and no candidate is examined after it; the library is
\* considered only after every candidate was examined and none passed; at
\* most one backend is selected.
C15_ProbeOrderFirstPassSelected ==
    /\ yt_dlp_paths[2] = yt_dlp_paths[1] \o ".exe"
    /\ yt_dlp_paths[3] = "/opt/homebrew/bin/yt-dlp"
    /\ yt_dlp_paths[4] = "/usr/local/bin/yt-dlp"
    /\ yt_dlp_paths[NumCands] = "yt-dlp"
    /\ \A p \in Procs :
        /\ InOrder(probed[p])
        /\ Len(probed[p]) <= NumCands
        /\ Cardinality(passed[p]) <= 1
        /\ \A i \in passed[p] : i = Len(probed[p])
        /\ Probed(p) =>
              /\ yt_dlp_cmd[p] # 0 =>
                    passed[p] = {yt_dlp_cmd[p]} /\ backend[p] = "exe"
              /\ yt_dlp_cmd[p] = 0 =>
                    passed[p] = {} /\ Len(probed[p]) = NumCands
              /\ backend[p] \in {"lib", "none"} => yt_dlp_cmd[p] = 0
              /\ \A i \in 1..Len(runs[p]) :
                    runs[p][i] = "lib" => passed[p] = {}

\* The third candidate was the first to pass: it was selected and run, and
\* the three candidates after it were never examined.
C15_Witness ==
    \E p \in Procs :
        /\ Done(p)
        /\ probed[p] = <<1, 2, 3>>
        /\ passed[p] = {3}
        /\ yt_dlp_cmd[p] = 3
        /\ runs[p] = <<"exe">>

\* C16: a liveness check that times out, cannot be launched or exits
\* non-zero only fails its candidate: nothing is raised or returned, nothing
\* is selected, and the loop goes to the next candidate, or past the last
\* one to the library fallback; the probe ends with an executable selected
\* or with every candidate examined.
C16_LivenessFailureContinues ==
    [][\A p \in Procs :
          /\ pc[p] = "probe" => exc[p] = NoExc /\ ret[p] = NoResp
          /\ pc[p] = "select" =>
                yt_dlp_cmd[p] # 0 \/ Len(probed[p]) = NumCands
          /\ pc[p] = "probe"
                /\ test_result[p] \in {"nonzero", "TimeoutExpired", "OSError"}
                /\ test_result'[p] # test_result[p] =>
                /\ exc'[p] = NoExc
                /\ ret'[p] = NoResp
                /\ response'[p] = NoResp
                /\ yt_dlp_cmd'[p] = 0
                /\ test_result'[p] = "none"
                /\ idx'[p] = idx[p] + 1
                /\ pc'[p] = IF idx[p] < NumCands THEN "probe" ELSE "select"
                /\ cleanups'[p] = 0]_vars

\* The liveness check of the last candidate timed out after the check of an
\* earlier candidate had ended; no candidate has passed.
C16_Witness ==
    \E p \in Procs :
        /\ pc[p] = "probe"
        /\ idx[p] = NumCands
        /\ probed[p] = <<1, 2, 3, 4, 5, 6>>
        /\ test_result[p] = "TimeoutExpired"
        /\ passed[p] = {}
        /\ exc[p] = NoExc

\* The ways an extraction fails.
ExtractionFailures == {"nonzero", "timeout", "oserror", "raised"}

\* C17: within one request the extraction is started at most once, by the
\* selected backend; once it has failed (non-zero exit, timeout, launch
\* failure, exception of the library) the request only cleans up and
\* answers: no second extraction, no fallback from the executable to the
\* library, and the answer is a failure.
C17_ExtractionAtMostOnce ==
    \A p \in Procs :
        /\ Len(runs[p]) <= 1
        /\ \A i \in 1..Len(runs[p]) : runs[p][i] = backend[p]
        /\ runs[p] = <<>> <=> extracted[p] = ""
        /\ extracted[p] \in ExtractionFailures =>
              pc[p] \in {"finally", "cleanup_loop", "outer", "done"}
        /\ Done(p) /\ extracted[p] \in ExtractionFailures =>
              response[p].statusCode = 500

\* The selected executable exited non-zero leaving a partial file; the
\* request ended in a failure after that single run.
C17_Witness ==
    \E p \in Procs :
        /\ Done(p)
        /\ backend[p] = "exe"
        /\ extracted[p] = "nonzero"
        /\ written[p] = {".m4a"}
        /\ runs[p] = <<"exe">>
        /\ response[p].error = "Failed to extract audio"

\* Position of an extension in the fixed order .m4a, .webm, .opus, .mp3, .mp4.
Rank(e) == CHOOSE i \in 1..Len(Exts) : Exts[i] = e

\* The extension the specified resolution accepts under base b: the expected
\* one when its file exists, otherwise the earliest in the fixed order whose
\* file exists.
Expected(f, b) ==
    IF Exists(f, <<b, Suffix>>) THEN Suffix
    ELSE CHOOSE e \in ExtSet :
             /\ Exists(f, <<b, e>>)
             /\ \A d \in ExtSet : Exists(f, <<b, d>>) => Rank(e) <= Rank(d)

\* C18: the resolution step takes <scratch base>.mp3 when that file exists;
\* when it is absent it takes the file of the first extension in the order
\* .m4a, .webm, .opus, .mp3, .mp4 that exists under the scratch base, the
\* earliest one when several exist, and goes on to read it; when none
\* exists it ends in NoOutputProduced.
C18_ResolutionOrder ==
    [][Exts = <<".m4a", ".webm", ".opus", ".mp3", ".mp4">>
          /\ \A p \in Procs :
                pc[p] = "resolve" /\ pc'[p] # "resolve" =>
                    IF \E e \in ExtSet : Exists(fs, <<scratch[p], e>>)
                    THEN /\ audio_path'[p] =
                                <<scratch[p], Expected(fs, scratch[p])>>
                         /\ pc'[p] = "read"
                         /\ ret'[p] = NoResp
                    ELSE /\ audio_path'[p] = audio_path[p]
                         /\ pc'[p] = "finally"
                         /\ ret'[p] = NoOutputProduced]_vars

\* The library removed the placeholder and left three files; the resolution
\* took the .webm one, the earliest of them in the order.
C18_Witness ==
    \E p \in Procs :
        /\ pc[p] = "read"
        /\ backend[p] = "lib"
        /\ removed[p]
        /\ written[p] = {".mp4", ".opus", ".webm"}
        /\ audio_path[p] = <<scratch[p], ".webm">>

\* C19: 'yt-dlp not found' is answered only when no backend was selected:
\* never after an executable was selected, and never after the library was
\* imported and its extraction started.
C19_BackendUnavailableOnlyWhenNoneSelected ==
    \A p \in Procs :
        Done(p) /\ response[p] = BackendUnavailable =>
            /\ backend[p] = "none"
            /\ yt_dlp_cmd[p] = 0
            /\ runs[p] = <<>>

====
